---- MODULE Spec2Model ----
(***************************************************************************)
(* A model of the Clarity CPA analysis engine (src/main.py, class          *)
(* ClarityCPA): pattern-based defect detection, the scoring functions,     *)
(* document classification and the two public operations                   *)
(* quality_assurance_review and strategic_analysis.                        *)
(*                                                                         *)
(* Documents are TLA+ strings; the Python str and re operations the engine *)
(* uses are modelled character by character on them.                       *)
(***************************************************************************)
EXTENDS Integers, Sequences, FiniteSets, TLC

(***************************************************************************)
(* Python str operations                                                   *)
(***************************************************************************)
Ch(s, i) == SubSeq(s, i, i)

UpperCase == "ABCDEFGHIJKLMNOPQRSTUVWXYZ"
LowerCase == "abcdefghijklmnopqrstuvwxyz"
Digits == {"0", "1", "2", "3", "4", "5", "6", "7", "8", "9"}
UpperLetters == {Ch(UpperCase, i) : i \in 1..Len(UpperCase)}
LowerLetters == {Ch(LowerCase, i) : i \in 1..Len(LowerCase)}
\* \w of the re module, on ASCII text
WordChars == UpperLetters \cup LowerLetters \cup Digits \cup {"_"}
\* \s of the re module and the separators of str.split() and str.strip()
Whitespace == {" ", "\n", "\t"}

LowerOf == [c \in UpperLetters |->
              Ch(LowerCase, CHOOSE i \in 1..Len(UpperCase) : Ch(UpperCase, i) = c)]
LowerChar(c) == IF c \in UpperLetters THEN LowerOf[c] ELSE c

\* str.lower()
RECURSIVE lower(_)
lower(s) ==
  IF Len(s) = 0 THEN ""
  ELSE IF Len(s) = 1 THEN LowerChar(s)
  ELSE LET h == Len(s) \div 2
       IN lower(SubSeq(s, 1, h)) \o lower(SubSeq(s, h + 1, Len(s)))

\* sub in s
Contains(s, sub) ==
  \E i \in 1..(Len(s) - Len(sub) + 1) : SubSeq(s, i, i + Len(sub) - 1) = sub

\* any(word in s for word in words)
ContainsAny(s, words) == \E k \in DOMAIN words : Contains(s, words[k])

\* sum(1 for word in words if word in s)
CountFound(s, words) == Cardinality({k \in DOMAIN words : Contains(s, words[k])})

\* s.split(sep) for a one-character separator: the pieces between separators
split(s, sep) ==
  LET P == {i \in 1..Len(s) : Ch(s, i) = sep}
      n == Cardinality(P)
      Kth(k) == IF k = 0 THEN 0
                ELSE IF k = n + 1 THEN Len(s) + 1
                ELSE CHOOSE p \in P : Cardinality({q \in P : q < p}) = k - 1
  IN [k \in 1..(n + 1) |-> SubSeq(s, Kth(k - 1) + 1, Kth(k) - 1)]

\* len(s.split()): the number of whitespace-separated words
WordCount(s) ==
  Cardinality({i \in 1..Len(s) :
                 /\ Ch(s, i) \notin Whitespace
                 /\ (i = 1 \/ Ch(s, i - 1) \in Whitespace)})

\* s.strip()
strip(s) ==
  LET Keep == {i \in 1..Len(s) : Ch(s, i) \notin Whitespace}
  IN IF Keep = {} THEN ""
     ELSE SubSeq(s, CHOOSE i \in Keep : \A j \in Keep : i <= j,
                    CHOOSE i \in Keep : \A j \in Keep : j <= i)

\* s.replace(old, new), old not empty: leftmost occurrences, not overlapping
RECURSIVE replace(_, _, _)
replace(s, old, new) ==
  IF Len(s) < Len(old) THEN s
  ELSE IF SubSeq(s, 1, Len(old)) = old
       THEN new \o replace(SubSeq(s, Len(old) + 1, Len(s)), old, new)
       ELSE Ch(s, 1) \o replace(SubSeq(s, 2, Len(s)), old, new)

(***************************************************************************)
(* The re module: a pattern is a syntax tree, Step gives the positions a   *)
(* match can end at from a set of start positions (position i is the gap   *)
(* before character i).                                                    *)
(***************************************************************************)
Lit(str) == [t |-> "lit", s |-> str]          \* a literal string
Cls(set) == [t |-> "cls", set |-> set]        \* [...], \d, \s: one character of a set
AnyChar == [t |-> "any"]                      \* . : any character but a newline
WB == [t |-> "wb"]                            \* \b
Cat(parts) == [t |-> "cat", parts |-> parts]  \* r1 r2 ...
Alt(alts) == [t |-> "alt", alts |-> alts]     \* r1 | r2 | ...
Star(r) == [t |-> "star", r |-> r]            \* r*
Plus(r) == Cat(<<r, Star(r)>>)                \* r+
Opt(r) == Alt(<<r, Lit("")>>)                 \* r?
Times3(r) == Cat(<<r, r, r>>)                 \* r{3}

IsWordAt(s, i) == i >= 1 /\ i <= Len(s) /\ Ch(s, i) \in WordChars

RECURSIVE Step(_, _, _, _)
RECURSIVE StarClosure(_, _, _, _, _)
Step(re, s, I, ic) ==
  IF I = {} THEN {}
  ELSE CASE re.t = "lit" ->
              LET n == Len(re.s)
              IN {i + n : i \in {j \in I :
                     /\ j + n - 1 <= Len(s)
                     /\ IF ic
                        THEN /\ n = 0 \/ LowerChar(Ch(s, j)) = LowerChar(Ch(re.s, 1))
                             /\ lower(SubSeq(s, j, j + n - 1)) = lower(re.s)
                        ELSE SubSeq(s, j, j + n - 1) = re.s}}
         [] re.t = "cls" ->
              {i + 1 : i \in {j \in I :
                     /\ j <= Len(s)
                     /\ \/ Ch(s, j) \in re.set
                        \/ ic /\ LowerChar(Ch(s, j)) \in re.set}}
         [] re.t = "any" ->
              {i + 1 : i \in {j \in I : j <= Len(s) /\ Ch(s, j) # "\n"}}
         [] re.t = "wb" ->
              {i \in I : IsWordAt(s, i - 1) # IsWordAt(s, i)}
         [] re.t = "cat" ->
              IF Len(re.parts) = 0 THEN I
              ELSE Step(Cat(Tail(re.parts)), s, Step(Head(re.parts), s, I, ic), ic)
         [] re.t = "alt" ->
              UNION {Step(re.alts[k], s, I, ic) : k \in DOMAIN re.alts}
         [] re.t = "star" ->
              StarClosure(re.r, s, I, I, ic)
StarClosure(r, s, seen, frontier, ic) ==
  LET nxt == Step(r, s, frontier, ic) \ seen
  IN IF nxt = {} THEN seen ELSE StarClosure(r, s, seen \cup nxt, nxt, ic)

\* bool(re.search(pattern, s, flags))
search(re, s, ic) == Step(re, s, 1..(Len(s) + 1), ic) # {}

\* Whether the pattern r1 r2 ... rn matches from position i: its first two
\* parts first, the whole pattern only where they match
MatchesAt(parts, s, i) ==
  /\ Len(parts) < 2 \/ Step(Cat(SubSeq(parts, 1, 2)), s, {i}, FALSE) # {}
  /\ Step(Cat(parts), s, {i}, FALSE) # {}

\* The match of the pattern r1 r2 ... rn from position i (there is one), as the
\* re module finds it: each part takes the longest text that lets the rest
\* match. The result is the position after each part.
RECURSIVE MatchParts(_, _, _)
MatchParts(parts, s, i) ==
  IF Len(parts) = 0 THEN <<>>
  ELSE LET good == {e \in Step(Head(parts), s, {i}, FALSE) :
                      MatchesAt(Tail(parts), s, e)}
           e == CHOOSE m \in good : \A o \in good : o <= m
       IN <<e>> \o MatchParts(Tail(parts), s, e)

\* re.findall(pattern, s) for the pattern r1 ... rn: the matches from left to
\* right, not overlapping, each as its start and the position after each part
RECURSIVE FindAllFrom(_, _, _)
FindAllFrom(parts, s, i) ==
  LET starts == {j \in i..(Len(s) + 1) : MatchesAt(parts, s, j)}
  IN IF starts = {} THEN <<>>
     ELSE LET j == CHOOSE m \in starts : \A o \in starts : m <= o
              ends == MatchParts(parts, s, j)
              stop == ends[Len(ends)]
          IN <<[start |-> j, ends |-> ends]>>
             \o FindAllFrom(parts, s, IF stop = j THEN j + 1 ELSE stop)
findall(parts, s) == FindAllFrom(parts, s, 1)

\* The text of group g of a match, where the group is part number g of the pattern
Group(s, m, g) == SubSeq(s, IF g = 1 THEN m.start ELSE m.ends[g - 1], m.ends[g] - 1)

(***************************************************************************)
(* Numbers: float(text) as an exact fraction num/den, den a power of ten.  *)
(* The products and differences of the literals the model draws are exact  *)
(* in binary floating point too.                                           *)
(***************************************************************************)
DigitString == "0123456789"
DigitVal(c) == (CHOOSE d \in 1..Len(DigitString) : Ch(DigitString, d) = c) - 1

RECURSIVE StrToNat(_)
StrToNat(s) ==
  IF Len(s) = 0 THEN 0
  ELSE StrToNat(SubSeq(s, 1, Len(s) - 1)) * Len(DigitString) + DigitVal(Ch(s, Len(s)))

RECURSIVE NatToStr(_)
NatToStr(n) ==
  IF n < Len(DigitString) THEN Ch(DigitString, n + 1)
  ELSE NatToStr(n \div Len(DigitString)) \o Ch(DigitString, (n % Len(DigitString)) + 1)

RECURSIVE PowerOfTen(_)
PowerOfTen(k) == IF k = 0 THEN 1 ELSE Len(DigitString) * PowerOfTen(k - 1)

\* float(text), text being digits with an optional fraction
float(text) ==
  LET dots == {i \in 1..Len(text) : Ch(text, i) = "."}
  IN IF dots = {} THEN [num |-> StrToNat(text), den |-> 1]
     ELSE LET d == CHOOSE i \in dots : TRUE
              frac == SubSeq(text, d + 1, Len(text))
          IN [num |-> StrToNat(SubSeq(text, 1, d - 1)) * PowerOfTen(Len(frac))
                        + StrToNat(frac),
              den |-> PowerOfTen(Len(frac))]

Mul(a, b) == [num |-> a.num * b.num, den |-> a.den * b.den]
Abs(n) == IF n < 0 THEN 0 - n ELSE n

\* abs(a - b) > 0.01
DiffersByMoreThanACent(a, b) ==
  Abs(a.num * b.den - b.num * a.den) * PowerOfTen(2) > a.den * b.den

\* The digits of n with a comma before every group of three from the right
RECURSIVE Grouped(_)
Grouped(digits) ==
  IF Len(digits) <= 3 THEN digits
  ELSE Grouped(SubSeq(digits, 1, Len(digits) - 3)) \o ","
       \o SubSeq(digits, Len(digits) - 2, Len(digits))

\* f"{v:.2f}": the two decimals without the thousands separators
FormatMoneyPlain(v) ==
  LET scaled == v.num * PowerOfTen(2)
      q == scaled \div v.den
      r == scaled % v.den
      cents == IF 2 * r > v.den \/ (2 * r = v.den /\ q % 2 = 1) THEN q + 1 ELSE q
      c == cents % PowerOfTen(2)
  IN NatToStr(cents \div PowerOfTen(2)) \o "."
     \o (IF c < Len(DigitString) THEN "0" ELSE "") \o NatToStr(c)

\* f"{v:,.2f}" for v >= 0: two decimals (half to even), thousands separators
FormatMoney(v) ==
  LET scaled == v.num * PowerOfTen(2)
      q == scaled \div v.den
      r == scaled % v.den
      cents == IF 2 * r > v.den \/ (2 * r = v.den /\ q % 2 = 1) THEN q + 1 ELSE q
      c == cents % PowerOfTen(2)
  IN Grouped(NatToStr(cents \div PowerOfTen(2))) \o "."
     \o (IF c < Len(DigitString) THEN "0" ELSE "") \o NatToStr(c)

(***************************************************************************)
(* _detect_errors: the rule tables and the scan of the lines               *)
(***************************************************************************)
WordRule(word) == Cat(<<WB, Lit(word), WB>>)
Spaces == Plus(Cls(Whitespace))
Number == Plus(Cls(Digits))

\* spelling_patterns, in the order of the dict
spelling_patterns == <<
  [pattern |-> "\\bacheive\\b",    re |-> WordRule("acheive"),    correction |-> "achieve"],
  [pattern |-> "\\bbeleive\\b",    re |-> WordRule("beleive"),    correction |-> "believe"],
  [pattern |-> "\\baproach\\b",    re |-> WordRule("aproach"),    correction |-> "approach"],
  [pattern |-> "\\bexperiance\\b", re |-> WordRule("experiance"), correction |-> "experience"],
  [pattern |-> "\\baccurate\\b",   re |-> WordRule("accurate"),   correction |-> "accurate"],
  [pattern |-> "\\brecieve\\b",    re |-> WordRule("recieve"),    correction |-> "receive"],
  [pattern |-> "\\bpropsal\\b",    re |-> WordRule("propsal"),    correction |-> "proposal"] >>

\* grammar_patterns, in the order of the dict
grammar_patterns == <<
  [pattern |-> "\\byour\\s+going\\b",
   re |-> Cat(<<WB, Lit("your"), Spaces, Lit("going"), WB>>),
   correction |-> "you're going"],
  [pattern |-> "\\bthey\\'re\\s+office\\b",
   re |-> Cat(<<WB, Lit("they're"), Spaces, Lit("office"), WB>>),
   correction |-> "their office"],
  [pattern |-> "\\byou\\'re\\s+organization\\b",
   re |-> Cat(<<WB, Lit("you're"), Spaces, Lit("organization"), WB>>),
   correction |-> "your organization"],
  [pattern |-> "\\bover\\s+\\d+\\+\\s+years\\b",
   re |-> Cat(<<WB, Lit("over"), Spaces, Number, Lit("+"), Spaces, Lit("years"), WB>>),
   correction |-> "redundant 'over' and '+'"],
  [pattern |-> "\\bapproximatley\\b", re |-> WordRule("approximatley"),
   correction |-> "approximately"],
  [pattern |-> "\\bdependng\\b", re |-> WordRule("dependng"),
   correction |-> "depending"] >>

\* \d+(?:,\d{3})*(?:\.\d+)?
SeparatedNumber ==
  Cat(<<Number, Star(Cat(<<Lit(","), Times3(Cls(Digits))>>)),
        Opt(Cat(<<Lit("."), Number>>))>>)
\* \d+(?:\.\d+)?
PlainNumber == Cat(<<Number, Opt(Cat(<<Lit("."), Number>>))>>)
TimesSign == "×"
\* \$?(A)\s*[x×*]\s*(B)\s*=\s*\$?(C): the parts of the pattern, the groups being
\* parts 2, 6 and 11
calc_pattern == <<
  Opt(Lit("$")), SeparatedNumber, Star(Cls(Whitespace)), Cls({"x", TimesSign, "*"}),
  Star(Cls(Whitespace)), PlainNumber, Star(Cls(Whitespace)), Lit("="),
  Star(Cls(Whitespace)), Opt(Lit("$")), SeparatedNumber >>

\* The spelling_errors records of one line with the rule loop left at the
\* first rule that matches
RECURSIVE SpellingFirstMatchOnly(_, _, _)
SpellingFirstMatchOnly(line, line_num, k) ==
  IF k > Len(spelling_patterns) THEN <<>>
  ELSE IF search(spelling_patterns[k].re, line, TRUE)
       THEN <<[line |-> line_num,
               text |-> replace(replace(replace(spelling_patterns[k].pattern,
                                                "\\b", ""), "^", ""), "$", ""),
               suggestion |-> spelling_patterns[k].correction,
               original |-> strip(line)]>>
       ELSE SpellingFirstMatchOnly(line, line_num, k + 1)

\* The spelling_errors records of one line, rule k onwards
RECURSIVE SpellingOfLine(_, _, _)
SpellingOfLine(line, line_num, k) ==
  IF k > Len(spelling_patterns) THEN <<>>
  ELSE (IF search(spelling_patterns[k].re, line, TRUE)
        THEN <<[line |-> line_num,
                text |-> replace(replace(replace(spelling_patterns[k].pattern,
                                                 "\\b", ""), "^", ""), "$", ""),
                suggestion |-> spelling_patterns[k].correction,
                original |-> strip(line)]>>
        ELSE <<>>)
       \o SpellingOfLine(line, line_num, k + 1)

\* The grammar_errors records of one line, rule k onwards
RECURSIVE GrammarOfLine(_, _, _)
GrammarOfLine(line, line_num, k) ==
  IF k > Len(grammar_patterns) THEN <<>>
  ELSE (IF search(grammar_patterns[k].re, line, TRUE)
        THEN <<[line |-> line_num,
                text |-> replace(replace(grammar_patterns[k].pattern, "\\b", ""),
                                 "\\s+", " "),
                suggestion |-> grammar_patterns[k].correction,
                original |-> strip(line)]>>
        ELSE <<>>)
       \o GrammarOfLine(line, line_num, k + 1)

\* The calculation_errors records of one line, match k onwards
RECURSIVE CalcOfLine(_, _, _, _)
CalcOfLine(line, line_num, matches, k) ==
  IF k > Len(matches) THEN <<>>
  ELSE LET m0 == Group(line, matches[k], 2)
           m1 == Group(line, matches[k], 6)
           m2 == Group(line, matches[k], 11)
           num1 == float(replace(m0, ",", ""))
           num2 == float(replace(m1, ",", ""))
           result == float(replace(m2, ",", ""))
           expected == Mul(num1, num2)
       IN (IF DiffersByMoreThanACent(expected, result)
           THEN <<[line |-> line_num,
                   expression |-> m0 \o " " \o TimesSign \o " " \o m1 \o " = " \o m2,
                   expected |-> FormatMoney(expected),
                   error |-> "Should be " \o FormatMoney(expected) \o ", not " \o m2]>>
           ELSE <<>>)
          \o CalcOfLine(line, line_num, matches, k + 1)

\* errors before the first line
NoErrors ==
  [spelling_errors |-> <<>>, grammar_errors |-> <<>>, consistency_errors |-> <<>>,
   calculation_errors |-> <<>>, logic_errors |-> <<>>]

\* The loop reporting a misspelling only where the text first has it
RECURSIVE ScanLinesReportingOnce(_, _, _)
ScanLinesReportingOnce(lines, line_num, errors) ==
  IF line_num > Len(lines) THEN errors
  ELSE LET line == lines[line_num]
           Fresh(r) == \A k \in DOMAIN errors.spelling_errors :
                         errors.spelling_errors[k].text # r.text
       IN ScanLinesReportingOnce(lines, line_num + 1,
            [errors EXCEPT
               !.spelling_errors = @ \o SelectSeq(SpellingOfLine(line, line_num, 1), Fresh),
               !.grammar_errors = @ \o GrammarOfLine(line, line_num, 1),
               !.calculation_errors =
                  @ \o CalcOfLine(line, line_num, findall(calc_pattern, line), 1)])

\* The loop over the lines, from line line_num on, appending to errors
RECURSIVE ScanLines(_, _, _)
ScanLines(lines, line_num, errors) ==
  IF line_num > Len(lines) THEN errors
  ELSE LET line == lines[line_num]
       IN ScanLines(lines, line_num + 1,
            [errors EXCEPT
               !.spelling_errors = @ \o SpellingOfLine(line, line_num, 1),
               !.grammar_errors = @ \o GrammarOfLine(line, line_num, 1),
               !.calculation_errors =
                  @ \o CalcOfLine(line, line_num, findall(calc_pattern, line), 1)])

_detect_errors(content) == ScanLines(split(content, "\n"), 1, NoErrors)

(***************************************************************************)
(* The quality pipeline. A score the code computes as a quotient of        *)
(* integers times 100 is kept as the fraction num/den.                     *)
(***************************************************************************)
Min(a, b) == IF a < b THEN a ELSE b
Max(a, b) == IF a > b THEN a ELSE b

ErrorKinds ==
  <<"spelling_errors", "grammar_errors", "consistency_errors",
    "calculation_errors", "logic_errors">>

RECURSIVE SumLen(_, _)
\* sum(len(error_list) for error_list in errors.values()), from kind k on
SumLen(errors, k) ==
  IF k > Len(ErrorKinds) THEN 0
  ELSE Len(errors[ErrorKinds[k]]) + SumLen(errors, k + 1)

\* The score clamped after the penalties, the bonuses added to the clamped value
ClampedBeforeBonuses(content, errors) ==
  LET penalised == Max(0, Min(100, 100 - SumLen(errors, 1) * 5))
      detailed == IF Len(content) > 500 THEN penalised + 5 ELSE penalised
  IN IF Contains(content, "$")
        /\ ContainsAny(lower(content), <<"roi", "investment", "return">>)
     THEN detailed + 10 ELSE detailed

\* The score without the final clamp
UnclampedQualityScore(content, errors) ==
  LET penalised == 100 - SumLen(errors, 1) * 5
      detailed == IF Len(content) > 500 THEN penalised + 5 ELSE penalised
  IN IF Contains(content, "$")
        /\ ContainsAny(lower(content), <<"roi", "investment", "return">>)
     THEN detailed + 10 ELSE detailed

_calculate_quality_score(content, errors) ==
  LET penalised == 100 - SumLen(errors, 1) * 5
      detailed == IF Len(content) > 500 THEN penalised + 5 ELSE penalised
      base_score ==
        IF Contains(content, "$")
           /\ ContainsAny(lower(content), <<"roi", "investment", "return">>)
        THEN detailed + 10 ELSE detailed
  IN Max(0, Min(100, base_score))

_generate_recommendations(content, errors) ==
  (IF SumLen(errors, 1) > 5
   THEN <<"Consider thorough proofreading before final submission">> ELSE <<>>)
  \o (IF Len(errors.calculation_errors) > 0
      THEN <<"Verify all mathematical calculations and financial projections">>
      ELSE <<>>)
  \o (IF Len(errors.spelling_errors) > 0
      THEN <<"Use spell-check tools to catch common spelling mistakes">> ELSE <<>>)
  \o (IF Len(errors.grammar_errors) > 0
      THEN <<"Review grammar, especially possessive forms and contractions">>
      ELSE <<>>)
  \o (IF Len(content) < 200
      THEN <<"Consider expanding with more detailed information">> ELSE <<>>)
  \o (IF ~ContainsAny(lower(content), <<"timeline", "deadline", "schedule">>)
      THEN <<"Include specific timelines and deadlines">> ELSE <<>>)

\* The classification with the report keywords tried first
ClassifyReportFirst(content) ==
  LET content_lower == lower(content)
  IN IF ContainsAny(content_lower, <<"report", "analysis", "findings">>)
       THEN "business_report"
     ELSE IF ContainsAny(content_lower, <<"proposal", "executive summary", "investment">>)
       THEN "business_proposal"
     ELSE IF ContainsAny(content_lower, <<"email", "message", "correspondence">>)
       THEN "business_communication"
     ELSE "general_business_document"

_classify_document(content) ==
  LET content_lower == lower(content)
  IN IF ContainsAny(content_lower, <<"proposal", "executive summary", "investment">>)
     THEN "business_proposal"
     ELSE IF ContainsAny(content_lower, <<"report", "analysis", "findings">>)
     THEN "business_report"
     ELSE IF ContainsAny(content_lower, <<"email", "message", "correspondence">>)
     THEN "business_communication"
     ELSE "general_business_document"

_score_grammar(content) ==
  Max(0, 100 - (Len(_detect_errors(content).grammar_errors) * 10))

_score_clarity(content) ==
  LET sentences == split(content, ".")
      RECURSIVE Words(_)
      Words(k) == IF k > Len(sentences) THEN 0
                  ELSE WordCount(sentences[k]) + Words(k + 1)
      total == Words(1)
      n == Len(sentences)
  IN \* avg_sentence_length = total / n, and n >= 1
     IF 15 * n <= total /\ total <= 20 * n THEN 95
     ELSE IF 10 * n <= total /\ total <= 25 * n THEN 85
     ELSE 70

_score_professionalism(content) ==
  LET found_professional ==
        CountFound(lower(content),
          <<"executive", "strategic", "comprehensive", "optimize", "implement">>)
      found_informal ==
        CountFound(lower(content), <<"gonna", "wanna", "yeah", "ok", "awesome">>)
      score == 85 + Min(15, found_professional * 3) - found_informal * 10
  IN Max(0, Min(100, score))

_score_completeness(content) ==
  LET sections == <<"problem", "solution", "timeline", "investment", "roi", "conclusion">>
  IN [num |-> CountFound(lower(content), sections) * 100, den |-> Len(sections)]

(***************************************************************************)
(* The strategic pipeline                                                  *)
(***************************************************************************)
AnyOf(ws) == Alt([k \in DOMAIN ws |-> Lit(ws[k])])
DollarFigure == Cat(<<Lit("$"), Plus(Cls(Digits \cup {","}))>>)
Percentage == Cat(<<Number, Lit("%")>>)

\* The seven factors, in the order of the dict
strength_factors == <<
  AnyOf(<<"problem", "challenge", "issue", "pain">>),
  AnyOf(<<"solution", "approach", "strategy", "method">>),
  Alt(<<Cat(<<Number, Star(Cls(Whitespace)),
              Alt(<<Cat(<<Lit("day"), Opt(Lit("s"))>>),
                    Cat(<<Lit("week"), Opt(Lit("s"))>>),
                    Cat(<<Lit("month"), Opt(Lit("s"))>>)>>)>>),
        Lit("timeline"), Lit("schedule")>>),
  Alt(<<DollarFigure, Lit("investment"), Lit("cost"), Lit("price")>>),
  AnyOf(<<"roi", "return", "benefit", "value">>),
  AnyOf(<<"team", "experience", "expert", "professional">>),
  AnyOf(<<"urgent", "critical", "immediate", "asap">>) >>

_analyze_proposal_strength(content) ==
  [num |-> Cardinality({k \in DOMAIN strength_factors :
                          search(strength_factors[k], content, TRUE)}) * 100,
   den |-> Len(strength_factors)]

\* A positioning that takes the market from the context
PositionFromContext(content, context) ==
  [differentiation_strength |->
     IF Contains(lower(content), "unique") \/ Contains(lower(content), "exclusive")
     THEN "strong" ELSE "moderate",
   competitive_advantages |->
     <<"Comprehensive 7-agent approach", "Proven track record",
       "Rapid implementation timeline">>,
   market_positioning |->
     IF "industry" \in DOMAIN context THEN context.industry ELSE "premium specialist"]

_analyze_competitive_position(content, context) ==
  [differentiation_strength |->
     IF Contains(lower(content), "unique") \/ Contains(lower(content), "exclusive")
     THEN "strong" ELSE "moderate",
   competitive_advantages |->
     <<"Comprehensive 7-agent approach", "Proven track record",
       "Rapid implementation timeline">>,
   market_positioning |-> "premium specialist"]

\* The sum with the points given for every occurrence of a word
TriggerSumPerOccurrence(content, words, points) ==
  LET content_lower == lower(content)
  IN points * Cardinality({h \in (DOMAIN words) \X (1..Len(content)) :
                            /\ h[2] + Len(words[h[1]]) - 1 <= Len(content)
                            /\ SubSeq(content_lower, h[2], h[2] + Len(words[h[1]]) - 1)
                                 = words[h[1]]})

\* sum(points for word in words if word in content.lower())
TriggerSum(content, words, points) == points * CountFound(lower(content), words)

_analyze_client_psychology(content, context) ==
  LET urgency_score ==
        TriggerSum(content, <<"critical", "urgent", "immediate", "crisis", "emergency">>, 10)
      fear_score ==
        TriggerSum(content, <<"risk", "loss", "failure", "decline", "threat">>, 10)
      gain_score ==
        TriggerSum(content, <<"growth", "increase", "improve", "benefit", "advantage">>, 10)
      persuasion_score == Min(100, urgency_score + fear_score + gain_score)
  IN [persuasion_score |-> persuasion_score,
      primary_motivators |->
        (IF urgency_score > 20 THEN <<"urgency">> ELSE <<>>)
        \o (IF fear_score > 20 THEN <<"loss_aversion">> ELSE <<>>)
        \o (IF gain_score > 20 THEN <<"growth_opportunity">> ELSE <<>>),
      psychological_triggers |->
        IF persuasion_score > 50 THEN <<"authority", "scarcity", "social_proof">>
        ELSE <<"clarity", "trust">>]

_generate_strategic_recommendations(content, context) ==
  (IF ~Contains(lower(content), "roi")
   THEN <<"Add specific ROI calculations and financial projections">> ELSE <<>>)
  \o (IF ~search(Percentage, content, FALSE)
      THEN <<"Include percentage-based metrics for credibility">> ELSE <<>>)
  \o (IF ~Contains(lower(content), "testimonial") /\ ~Contains(lower(content), "reference")
      THEN <<"Add client testimonials or case study references">> ELSE <<>>)
  \o (IF WordCount(content) < 300
      THEN <<"Expand content with more detailed implementation plan">> ELSE <<>>)
  \o <<"Include risk mitigation strategies", "Add competitive differentiation section">>

_identify_optimization_opportunities(content) ==
  (IF Contains(content, "$") /\ Contains(lower(content), "roi")
   THEN <<"Highlight exceptional ROI as primary value proposition">> ELSE <<>>)
  \o (IF search(Cat(<<Number, Star(Cls(Whitespace)), AnyOf(<<"day", "week">>)>>),
                content, FALSE)
      THEN <<"Emphasize rapid implementation timeline">> ELSE <<>>)
  \o (IF Contains(lower(content), "agent")
      THEN <<"Showcase innovative multi-agent approach">> ELSE <<>>)
  \o <<"Create urgency with limited-time offer", "Add social proof with industry statistics">>

_score_value_proposition(content) ==
  Min(100, Max(20, TriggerSum(content,
    <<"save", "reduce", "increase", "improve", "optimize", "roi", "benefit">>, 15)))

_score_credibility(content) ==
  Min(100, Max(30, TriggerSum(content,
    <<"experience", "proven", "track record", "certified", "years", "expert">>, 15)))

_score_urgency(content) ==
  Min(100, TriggerSum(content,
    <<"urgent", "critical", "immediate", "deadline", "asap", "emergency">>, 20))

\* \$[\d,]+.*\$[\d,]+
TwoDollarFigures == Cat(<<DollarFigure, Star(AnyChar), DollarFigure>>)
\* \d+%.*roi|roi.*\d+%
RoiPercentage ==
  Alt(<<Cat(<<Percentage, Star(AnyChar), Lit("roi")>>),
        Cat(<<Lit("roi"), Star(AnyChar), Percentage>>)>>)

\* The tiers with the patterns matched across line ends
RoiClarityAcrossLines(content) ==
  LET text == replace(content, "\n", " ")
  IN IF search(TwoDollarFigures, text, FALSE)
     THEN IF search(RoiPercentage, text, TRUE) THEN 95 ELSE 75
     ELSE IF Contains(lower(content), "roi") THEN 60
     ELSE 30

_score_roi_clarity(content) ==
  IF search(TwoDollarFigures, content, FALSE)
  THEN IF search(RoiPercentage, content, TRUE) THEN 95 ELSE 75
  ELSE IF Contains(lower(content), "roi") THEN 60
  ELSE 30

(***************************************************************************)
(* The two public operations                                               *)
(***************************************************************************)
\* __init__: the fields of the engine
NewEngine ==
  [name |-> "Clarity CPA", version |-> "1.0.0",
   capabilities |-> <<"Quality Assurance Review", "Error Detection & Correction",
                      "Strategic Analysis", "Business Proposal Review",
                      "Grammar & Style Checking">>]

\* context: absent (None) or a mapping
NoContext == [given |-> FALSE, map |-> <<>>]
Mapping(m) == [given |-> TRUE, map |-> m]
\* context or {}
OrEmpty(context) == IF context.given THEN context.map ELSE <<>>

\* The quality_dimensions of the result of quality_assurance_review
QualityDimensions(content) ==
  [grammar |-> _score_grammar(content),
   clarity |-> _score_clarity(content),
   professionalism |-> _score_professionalism(content),
   completeness |-> _score_completeness(content)]

\* The result record of quality_assurance_review; timestamp is
\* datetime.now() at the time the record is built
ReviewResult(self, type, dimensions, errors, quality_score, recommendations, timestamp) ==
  [success |-> TRUE,
   overall_score |-> quality_score,
   document_type |-> type,
   reviewer |-> self.name,
   errors_found |-> errors,
   improvement_recommendations |-> recommendations,
   quality_dimensions |-> dimensions,
   timestamp |-> timestamp]

\* The proposal_strength_assessment of the result of strategic_analysis
StrengthAssessment(content) ==
  [value_proposition |-> _score_value_proposition(content),
   credibility |-> _score_credibility(content),
   urgency |-> _score_urgency(content),
   roi_clarity |-> _score_roi_clarity(content)]

\* The result record of strategic_analysis
AnalysisResult(strength_score, assessment, position, insights, recommendations, opportunities) ==
  [success |-> TRUE,
   proposal_readiness_score |-> strength_score,
   proposal_strength_assessment |-> assessment,
   competitive_positioning |-> position,
   client_psychology_insights |-> insights,
   strategic_recommendations |-> recommendations,
   optimization_opportunities |-> opportunities]

\* quality_assurance_review run from start to end without a fault, the clock
\* reading timestamp when the record is built
quality_assurance_review(self, content, timestamp) ==
  LET errors == _detect_errors(content)
  IN ReviewResult(self, _classify_document(content), QualityDimensions(content),
                  errors, _calculate_quality_score(content, errors),
                  _generate_recommendations(content, errors), timestamp)

\* strategic_analysis run from start to end without a fault
strategic_analysis(self, content, context) ==
  AnalysisResult(_analyze_proposal_strength(content), StrengthAssessment(content),
                 _analyze_competitive_position(content, OrEmpty(context)),
                 _analyze_client_psychology(content, OrEmpty(context)),
                 _generate_strategic_recommendations(content, OrEmpty(context)),
                 _identify_optimization_opportunities(content))

(***************************************************************************)
(* Faults: an exception raised inside the try block of a public operation. *)
(* The code the block runs raises instances of Exception only (a lookup in *)
(* a corrupted table, a value of the wrong type, a pattern that does not   *)
(* compile, exhausted recursion).                                          *)
(***************************************************************************)
BaseOf ==
  [KeyError |-> "LookupError", LookupError |-> "Exception",
   TypeError |-> "Exception", error |-> "Exception",
   RecursionError |-> "RuntimeError", RuntimeError |-> "Exception",
   Exception |-> "BaseException"]

RECURSIVE IsSubclass(_, _)
IsSubclass(class, base) ==
  class = base \/ (class \in DOMAIN BaseOf /\ IsSubclass(BaseOf[class], base))

Faults ==
  {[class |-> "KeyError", message |-> "'spelling_errors'"],
   [class |-> "TypeError", message |-> "expected string or bytes-like object"],
   [class |-> "error", message |-> "unterminated character set at position 0"]}

\* except KeyError as e: a handler that names one class of fault only
CaughtKeyErrorOnly(e) == IsSubclass(e.class, "KeyError")

\* except Exception as e
Caught(e) == IsSubclass(e.class, "Exception")

\* return {"success": False, "error": str(e)}
FailureResult(e) == [success |-> FALSE, error |-> e.message]

(***************************************************************************)
(* The engine and its callers: each task calls one public operation on the *)
(* one engine; a call runs step by step, the steps of the tasks            *)
(* interleaved, the clock advancing in between.                            *)
(***************************************************************************)
VARIABLES
  engine,   \* the fields of the ClarityCPA instance
  now,      \* the clock datetime.now() reads
  frame,    \* per task: the call it runs, its position, its local variables
  doc,      \* the document under study when one function is applied alone
  out,      \* what the function returned
  given     \* what the document was built from: its parts, or the edit made
vars == <<engine, now, frame, doc, out, given>>

Tasks == {"task1", "task2"}
MaxClock == 2

\* The documents and contexts the tasks submit
EngineDocs ==
  {"This propsal will acheive growth.",
   "Investment: $350 returns $3,250\nROI 250%"}
Contexts ==
  {NoContext, Mapping(<<>>),
   Mapping([company |-> "Healthcare Company", urgency |-> "high",
            industry |-> "Healthcare"])}

\* The values the steps compute from the content alone, and from the content
\* and the context, tabulated over the documents the tasks submit
Computed ==
  [d \in EngineDocs |->
     [errors |-> _detect_errors(d),
      document_type |-> _classify_document(d),
      quality_dimensions |-> QualityDimensions(d),
      strength_score |-> _analyze_proposal_strength(d),
      assessment |-> StrengthAssessment(d),
      opportunities |-> _identify_optimization_opportunities(d)]]
ComputedWith ==
  [d \in EngineDocs, c \in Contexts |->
     [competitive_analysis |-> _analyze_competitive_position(d, OrEmpty(c)),
      psychology_insights |-> _analyze_client_psychology(d, OrEmpty(c)),
      strategic_recommendations |->
        _generate_strategic_recommendations(d, OrEmpty(c))]]

NoResult == [success |-> FALSE]
NoOutput == [fn |-> "none"]
IdleFrame ==
  [pc |-> "idle", op |-> "none", content |-> "", context |-> NoContext,
   errors |-> NoErrors, quality_score |-> 0, recommendations |-> <<>>,
   strength_score |-> [num |-> 0, den |-> 1],
   competitive_analysis |-> <<>>, psychology_insights |-> <<>>,
   strategic_recommendations |-> <<>>,
   result |-> NoResult, faulted |-> FALSE, raised_at |-> "none", escaped |-> FALSE,
   overlapped |-> FALSE]

ReviewSteps == {"detect", "score", "recommend", "assemble_review"}
AnalysisSteps == {"strength", "competitive", "psychology", "strategic", "assemble_analysis"}

Init ==
  /\ engine = NewEngine
  /\ now = 0
  /\ frame = [t \in Tasks |-> IdleFrame]
  /\ doc = ""
  /\ out = NoOutput
  /\ given = NoOutput

\* Whether a call of another task is in progress
OthersRunning(t) ==
  \E u \in Tasks \ {t} : frame[u].pc \in ReviewSteps \cup AnalysisSteps

\* The frame of a call that has ended: its local variables are gone. What is
\* kept beside the result is the history the properties speak of: whether a
\* fault was raised and at which step, whether the exception reached the
\* caller, whether another call was in progress when this one ended.
Returned(t, result, faulted, escaped) ==
  [IdleFrame EXCEPT !.pc = "done", !.op = frame[t].op, !.content = frame[t].content,
                    !.context = frame[t].context, !.result = result,
                    !.faulted = faulted,
                    !.raised_at = IF faulted THEN frame[t].pc ELSE "none",
                    !.escaped = escaped, !.overlapped = OthersRunning(t)]

\* await clarity.quality_assurance_review(content)
CallReview(t, content) ==
  /\ frame[t].pc = "idle"
  /\ frame' = [frame EXCEPT ![t] = [IdleFrame EXCEPT !.pc = "detect", !.op = "review",
                                                     !.content = content]]
  /\ UNCHANGED <<engine, now, doc, out, given>>

\* The inventory kept in one place all calls share, instead of a local variable
DetectIntoSharedState(t) ==
  /\ frame[t].pc = "detect"
  /\ frame' = [u \in Tasks |->
                 IF u = t
                 THEN [frame[t] EXCEPT !.errors = Computed[frame[t].content].errors,
                                       !.pc = "score"]
                 ELSE IF frame[u].pc \in ReviewSteps
                 THEN [frame[u] EXCEPT !.errors = Computed[frame[t].content].errors]
                 ELSE frame[u]]
  /\ UNCHANGED <<engine, now, doc, out, given>>

\* errors = self._detect_errors(content)
Detect(t) ==
  /\ frame[t].pc = "detect"
  /\ frame' = [frame EXCEPT ![t].errors = Computed[frame[t].content].errors,
                            ![t].pc = "score"]
  /\ UNCHANGED <<engine, now, doc, out, given>>

\* quality_score = self._calculate_quality_score(content, errors)
Score(t) ==
  /\ frame[t].pc = "score"
  /\ frame' = [frame EXCEPT
       ![t].quality_score = _calculate_quality_score(frame[t].content, frame[t].errors),
       ![t].pc = "recommend"]
  /\ UNCHANGED <<engine, now, doc, out, given>>

\* recommendations = self._generate_recommendations(content, errors)
Recommend(t) ==
  /\ frame[t].pc = "recommend"
  /\ frame' = [frame EXCEPT
       ![t].recommendations = _generate_recommendations(frame[t].content, frame[t].errors),
       ![t].pc = "assemble_review"]
  /\ UNCHANGED <<engine, now, doc, out, given>>

\* result = {...}; return result
AssembleReview(t) ==
  /\ frame[t].pc = "assemble_review"
  /\ frame' = [frame EXCEPT ![t] =
       Returned(t,
                ReviewResult(engine, Computed[frame[t].content].document_type,
                             Computed[frame[t].content].quality_dimensions,
                             frame[t].errors, frame[t].quality_score,
                             frame[t].recommendations, now),
                FALSE, FALSE)]
  /\ UNCHANGED <<engine, now, doc, out, given>>

\* await clarity.strategic_analysis(content, context)
CallAnalysis(t, content, context) ==
  /\ frame[t].pc = "idle"
  /\ frame' = [frame EXCEPT ![t] = [IdleFrame EXCEPT !.pc = "strength", !.op = "analysis",
                                                     !.content = content,
                                                     !.context = context]]
  /\ UNCHANGED <<engine, now, doc, out, given>>

\* strength_score = self._analyze_proposal_strength(content)
Strength(t) ==
  /\ frame[t].pc = "strength"
  /\ frame' = [frame EXCEPT
       ![t].strength_score = Computed[frame[t].content].strength_score,
       ![t].pc = "competitive"]
  /\ UNCHANGED <<engine, now, doc, out, given>>

\* competitive_analysis = self._analyze_competitive_position(content, context or {})
Competitive(t) ==
  /\ frame[t].pc = "competitive"
  /\ frame' = [frame EXCEPT
       ![t].competitive_analysis =
          ComputedWith[frame[t].content, frame[t].context].competitive_analysis,
       ![t].pc = "psychology"]
  /\ UNCHANGED <<engine, now, doc, out, given>>

\* psychology_insights = self._analyze_client_psychology(content, context or {})
Psychology(t) ==
  /\ frame[t].pc = "psychology"
  /\ frame' = [frame EXCEPT
       ![t].psychology_insights =
          ComputedWith[frame[t].content, frame[t].context].psychology_insights,
       ![t].pc = "strategic"]
  /\ UNCHANGED <<engine, now, doc, out, given>>

\* strategic_recommendations = self._generate_strategic_recommendations(content, context or {})
Strategic(t) ==
  /\ frame[t].pc = "strategic"
  /\ frame' = [frame EXCEPT
       ![t].strategic_recommendations =
          ComputedWith[frame[t].content, frame[t].context].strategic_recommendations,
       ![t].pc = "assemble_analysis"]
  /\ UNCHANGED <<engine, now, doc, out, given>>

\* result = {...}; return result
AssembleAnalysis(t) ==
  /\ frame[t].pc = "assemble_analysis"
  /\ frame' = [frame EXCEPT ![t] =
       Returned(t,
                AnalysisResult(frame[t].strength_score,
                               Computed[frame[t].content].assessment,
                               frame[t].competitive_analysis,
                               frame[t].psychology_insights,
                               frame[t].strategic_recommendations,
                               Computed[frame[t].content].opportunities),
                FALSE, FALSE)]
  /\ UNCHANGED <<engine, now, doc, out, given>>

\* A fault at the step the call is at: the except clause of the operation
\* returns the failure record when it catches the exception; an exception it
\* does not catch reaches the caller
Raise(t, e) ==
  /\ frame[t].pc \in ReviewSteps \cup AnalysisSteps
  /\ frame' = [frame EXCEPT ![t] =
       IF Caught(e) THEN Returned(t, FailureResult(e), TRUE, FALSE)
       ELSE Returned(t, NoResult, TRUE, TRUE)]
  /\ UNCHANGED <<engine, now, doc, out, given>>

\* Time passes
Tick ==
  /\ now < MaxClock
  /\ now' = now + 1
  /\ UNCHANGED <<engine, frame, doc, out, given>>

Next ==
  \/ \E t \in Tasks, content \in EngineDocs : CallReview(t, content)
  \/ \E t \in Tasks, content \in EngineDocs, context \in Contexts :
       CallAnalysis(t, content, context)
  \/ \E t \in Tasks : Detect(t)
  \/ \E t \in Tasks : Score(t)
  \/ \E t \in Tasks : Recommend(t)
  \/ \E t \in Tasks : AssembleReview(t)
  \/ \E t \in Tasks : Strength(t)
  \/ \E t \in Tasks : Competitive(t)
  \/ \E t \in Tasks : Psychology(t)
  \/ \E t \in Tasks : Strategic(t)
  \/ \E t \in Tasks : AssembleAnalysis(t)
  \/ \E t \in Tasks, e \in Faults : Raise(t, e)
  \/ Tick

Spec == Init /\ [][Next]_vars

(***************************************************************************)
(* Properties of the engine under interleaved calls, faults and time       *)
(***************************************************************************)
Done(t) == frame[t].pc = "done"
ReviewFields ==
  {"success", "overall_score", "document_type", "reviewer", "errors_found",
   "improvement_recommendations", "quality_dimensions", "timestamp"}
AnalysisFields ==
  {"success", "proposal_readiness_score", "proposal_strength_assessment",
   "competitive_positioning", "client_psychology_insights",
   "strategic_recommendations", "optimization_opportunities"}

\* C2: a call that has ended never raised to its caller; if a fault was raised
\* at any step, the result is the failure record, with success = FALSE and the
\* error description and no other field; if none was raised, the result is
\* the success record with every findings field and no error field.
C2_AtomicUnderFaults ==
  \A t \in Tasks : Done(t) =>
    /\ ~frame[t].escaped
    /\ IF frame[t].faulted
       THEN /\ DOMAIN frame[t].result = {"success", "error"}
            /\ frame[t].result.success = FALSE
            /\ \E e \in Faults : frame[t].result.error = e.message
       ELSE /\ DOMAIN frame[t].result =
                 (IF frame[t].op = "review" THEN ReviewFields ELSE AnalysisFields)
            /\ frame[t].result.success = TRUE

\* A fault raised at the last step, when every finding has been computed, and a
\* call without fault, both ended
C2_Witness ==
  \E t, u \in Tasks :
    /\ Done(t) /\ frame[t].faulted /\ frame[t].raised_at = "assemble_review"
    /\ frame[t].result = [success |-> FALSE, error |-> "'spelling_errors'"]
    /\ Done(u) /\ ~frame[u].faulted /\ frame[u].result.success

\* C3: two calls of the same operation with the same text (and the same
\* context) that ended without fault returned equal records, whatever happened
\* in between.
C3_Deterministic ==
  \A t, u \in Tasks :
    ( /\ Done(t) /\ Done(u) /\ ~frame[t].faulted /\ ~frame[u].faulted
      /\ frame[t].op = frame[u].op
      /\ frame[t].content = frame[u].content
      /\ frame[t].context = frame[u].context )
    => frame[t].result = frame[u].result

\* C9: two strategic_analysis calls on the same text that ended without fault
\* returned equal records, whatever the two contexts.
C9_ContextIndependent ==
  \A t, u \in Tasks :
    ( /\ Done(t) /\ Done(u) /\ ~frame[t].faulted /\ ~frame[u].faulted
      /\ frame[t].op = "analysis" /\ frame[u].op = "analysis"
      /\ frame[t].content = frame[u].content )
    => frame[t].result = frame[u].result

\* Two analyses of one text ended, one without a context, one with the
\* context of the demonstration
C9_Witness ==
  \E t, u \in Tasks :
    /\ Done(t) /\ Done(u) /\ ~frame[t].faulted /\ ~frame[u].faulted
    /\ frame[t].op = "analysis" /\ frame[u].op = "analysis"
    /\ frame[t].content = frame[u].content
    /\ ~frame[t].context.given
    /\ frame[u].context.given /\ "industry" \in DOMAIN frame[u].context.map
    /\ frame[t].result.competitive_positioning.market_positioning = "premium specialist"

\* What each call returns when it runs alone on a fresh engine
AloneReview == [d \in EngineDocs |-> quality_assurance_review(NewEngine, d, 0)]
AloneAnalysis ==
  [d \in EngineDocs, c \in Contexts |-> strategic_analysis(NewEngine, d, c)]
\* The findings of a review: every field but the time it was made
Findings(r) == [f \in DOMAIN r \ {"timestamp"} |-> r[f]]

\* C10: no call changes the engine, and every call that ended without fault,
\* however its steps were interleaved with those of the other call, returned
\* the findings it returns when run alone on a fresh engine.
C10_NoInterference ==
  /\ engine = NewEngine
  /\ \A t \in Tasks : (Done(t) /\ ~frame[t].faulted) =>
       IF frame[t].op = "review"
       THEN Findings(frame[t].result) = Findings(AloneReview[frame[t].content])
       ELSE frame[t].result = AloneAnalysis[frame[t].content, frame[t].context]

\* Two calls on different texts have ended, the first while the second was in
\* progress
C10_Witness ==
  \E t, u \in Tasks :
    /\ Done(t) /\ Done(u) /\ ~frame[t].faulted /\ ~frame[u].faulted
    /\ frame[t].overlapped
    /\ frame[t].op = "review" /\ frame[u].op = "review"
    /\ frame[t].content # frame[u].content
    /\ frame[t].result.overall_score # frame[u].result.overall_score

(***************************************************************************)
(* One function applied alone to one document. The document is drawn from  *)
(* a family of texts: every text of at most MaxLines lines, each line      *)
(* taken from the lines of the family.                                     *)
(***************************************************************************)
MaxLines == 2

RECURSIVE JoinLines(_)
\* "\n".join(lines)
JoinLines(lines) ==
  IF Len(lines) = 0 THEN ""
  ELSE IF Len(lines) = 1 THEN lines[1]
  ELSE lines[1] \o "\n" \o JoinLines(Tail(lines))

TextsOf(lines) ==
  {JoinLines(ls) : ls \in UNION {[1..n -> lines] : n \in 0..MaxLines}}

EngineIdle ==
  /\ engine = NewEngine
  /\ now = 0
  /\ frame = [t \in Tasks |-> IdleFrame]

\* result = await clarity.quality_assurance_review(doc)
ReviewDocument ==
  /\ out.fn = "none"
  /\ out' = [fn |-> "quality_assurance_review",
             val |-> quality_assurance_review(engine, doc, now)]
  /\ UNCHANGED <<engine, now, frame, doc, given>>

\* result = await clarity.strategic_analysis(doc, context)
AnalyzeDocument(context) ==
  /\ out.fn = "none"
  /\ out' = [fn |-> "strategic_analysis",
             val |-> strategic_analysis(engine, doc, context)]
  /\ UNCHANGED <<engine, now, frame, doc, given>>

(***************************************************************************)
(* The range of the scores                                                 *)
(***************************************************************************)
ScoreLines ==
  {"acheive beleive aproach experiance accurate recieve propsal 1 x 1 = 2, 1 x 1 = 3, 1 x 1 = 4, 1 x 1 = 5",
   "your going. they're office. you're organization. over 10+ years. approximatley dependng",
   "Our strategic, comprehensive plan will optimize and implement the executive summary",
   "gonna wanna yeah awesome ok",
   "urgent critical immediate deadline asap emergency crisis",
   "save reduce increase improve optimize roi benefit of the proven expert team",
   "Investment of $350,000 returns $3,250,000, ROI 250% in 90 days: problem solution timeline conclusion"}

InitScores ==
  /\ EngineIdle
  /\ doc \in TextsOf(ScoreLines)
  /\ out = NoOutput
  /\ given = NoOutput
NextScores ==
  \/ ReviewDocument
  \/ \E context \in Contexts : AnalyzeDocument(context)
SpecScores == InitScores /\ [][NextScores]_vars

InRange(score) == 0 <= score /\ score <= 100
InRangeFraction(score) == 0 <= score.num /\ score.num <= 100 * score.den /\ score.den > 0

\* C1: the overall score and the four quality dimensions of every review, and
\* the readiness score and the four strength scores of every analysis, lie in
\* [0, 100].
C1_ScoresInRange ==
  /\ out.fn = "quality_assurance_review" =>
       /\ InRange(out.val.overall_score)
       /\ InRange(out.val.quality_dimensions.grammar)
       /\ InRange(out.val.quality_dimensions.clarity)
       /\ InRange(out.val.quality_dimensions.professionalism)
       /\ InRangeFraction(out.val.quality_dimensions.completeness)
  /\ out.fn = "strategic_analysis" =>
       /\ InRangeFraction(out.val.proposal_readiness_score)
       /\ InRange(out.val.proposal_strength_assessment.value_proposition)
       /\ InRange(out.val.proposal_strength_assessment.credibility)
       /\ InRange(out.val.proposal_strength_assessment.urgency)
       /\ InRange(out.val.proposal_strength_assessment.roi_clarity)

\* A review of a text with more than twenty defects, whose score the clamp
\* holds at 0
C1_Witness ==
  /\ out.fn = "quality_assurance_review"
  /\ SumLen(out.val.errors_found, 1) > 20
  /\ out.val.overall_score = 0

(***************************************************************************)
(* Document classification                                                 *)
(***************************************************************************)
ClassifyLines ==
  {"Proposal", "summary", "executive summary", "Executive Summary",
   "investment", "quarterly report", "analysis of findings", "email",
   "message", "correspondence", "hello there"}

\* document_type = self._classify_document(doc)
ClassifyDocument ==
  /\ out.fn = "none"
  /\ out' = [fn |-> "_classify_document", val |-> _classify_document(doc)]
  /\ UNCHANGED <<engine, now, frame, doc, given>>

InitClassify ==
  /\ EngineIdle
  /\ doc \in TextsOf(ClassifyLines)
  /\ out = NoOutput
  /\ given = NoOutput
NextClassify == ClassifyDocument
SpecClassify == InitClassify /\ [][NextClassify]_vars

\* s contains sub at some position, letter case ignored
Mentions(s, sub) ==
  \E i \in 1..(Len(s) - Len(sub) + 1) :
    lower(SubSeq(s, i, i + Len(sub) - 1)) = sub
MentionsAny(s, subs) == \E sub \in subs : Mentions(s, sub)

\* The first keyword group, in the order proposal, report, communication,
\* that the text mentions
FirstGroup(s, proposal_words) ==
  IF MentionsAny(s, proposal_words) THEN "business_proposal"
  ELSE IF MentionsAny(s, {"report", "analysis", "findings"}) THEN "business_report"
  ELSE IF MentionsAny(s, {"email", "message", "correspondence"})
    THEN "business_communication"
  ELSE "general_business_document"

\* C8 as stated: the proposal keywords are proposal, summary and investment
C8_AsStated ==
  out.fn = "_classify_document" =>
    out.val = FirstGroup(doc, {"proposal", "summary", "investment"})

\* C8: classification is by case-insensitive keyword presence with a fixed
\* priority: business_proposal for proposal, executive summary or investment;
\* else business_report for report, analysis or findings; else
\* business_communication for email, message or correspondence; else
\* general_business_document. A text with both a proposal keyword and a
\* report keyword is a business_proposal.
C8_Classification ==
  out.fn = "_classify_document" =>
    /\ out.val = FirstGroup(doc, {"proposal", "executive summary", "investment"})
    /\ (Mentions(doc, "investment") /\ Mentions(doc, "report")) =>
         out.val = "business_proposal"

\* A text with a proposal keyword and a report keyword, classified
C8_Witness ==
  /\ out.fn = "_classify_document"
  /\ Mentions(doc, "executive summary")
  /\ Mentions(doc, "report")
  /\ out.val = "business_proposal"

(***************************************************************************)
(* The motivators of the psychology analysis                               *)
(***************************************************************************)
LinesUpTo(lines) == UNION {[1..n -> lines] : n \in 0..MaxLines}
FromLines(ls) == [kind |-> "lines", lines |-> ls]

PsychLines ==
  {"urgent", "urgent urgent urgent", "URGENT and critical", "immediate crisis",
   "emergency", "risk of loss and failure", "growth", "plain words"}

\* psychology_insights = self._analyze_client_psychology(doc, context or {})
AnalyzePsychology(context) ==
  /\ out.fn = "none"
  /\ out' = [fn |-> "_analyze_client_psychology",
             val |-> _analyze_client_psychology(doc, OrEmpty(context))]
  /\ UNCHANGED <<engine, now, frame, doc, given>>

InitPsych ==
  /\ EngineIdle
  /\ \E ls \in LinesUpTo(PsychLines) : given = FromLines(ls) /\ doc = JoinLines(ls)
  /\ out = NoOutput
NextPsych == \E context \in Contexts : AnalyzePsychology(context)
SpecPsych == InitPsych /\ [][NextPsych]_vars

UrgencyWords == {"critical", "urgent", "immediate", "crisis", "emergency"}
Occurrences(s, sub) ==
  Cardinality({i \in 1..(Len(s) - Len(sub) + 1) :
                 lower(SubSeq(s, i, i + Len(sub) - 1)) = sub})
RECURSIVE SumOver(_, _)
SumOver(S, f) ==
  IF S = {} THEN 0
  ELSE LET x == CHOOSE y \in S : TRUE IN f[x] + SumOver(S \ {x}, f)
UrgencyHits(s) == SumOver(UrgencyWords, [w \in UrgencyWords |-> Occurrences(s, w)])
InSeq(x, seq) == \E k \in DOMAIN seq : seq[k] = x

\* C7 as stated: 10 points for every hit of an urgency word, so "urgent"
\* three times over is enough for the urgency motivator
C7_AsStated ==
  out.fn = "_analyze_client_psychology" =>
    (InSeq("urgency", out.val.primary_motivators) <=> 10 * UrgencyHits(doc) > 20)

\* C7: the urgency sum adds 10 points for every urgency word that occurs in the
\* text, however often it occurs; "urgency" is in primary_motivators exactly
\* when that sum exceeds 20, which is when at least three different urgency
\* words occur. Repeating "urgent" alone never reaches it.
C7_UrgencyMotivator ==
  out.fn = "_analyze_client_psychology" =>
    LET present == {w \in UrgencyWords : Mentions(doc, w)}
    IN /\ InSeq("urgency", out.val.primary_motivators) <=> 10 * Cardinality(present) > 20
       /\ present = {"urgent"} => ~InSeq("urgency", out.val.primary_motivators)

\* "urgent" three times and two more urgency words, analysed
C7_Witness ==
  /\ out.fn = "_analyze_client_psychology"
  /\ Occurrences(doc, "urgent") >= 3
  /\ InSeq("urgency", out.val.primary_motivators)

(***************************************************************************)
(* The tiers of the ROI clarity score                                      *)
(***************************************************************************)
RoiLines ==
  {"Investment: $350,000", "Recovery: $3,250,000",
   "Invest $350,000, recover $3,250,000", "ROI: 9.3x return", "ROI of 250%",
   "40% churn", "strong roi", "Timeline: 90 days"}

\* "roi_clarity": self._score_roi_clarity(doc)
ScoreRoiClarity ==
  /\ out.fn = "none"
  /\ out' = [fn |-> "_score_roi_clarity", val |-> _score_roi_clarity(doc)]
  /\ UNCHANGED <<engine, now, frame, doc, given>>

InitRoi ==
  /\ EngineIdle
  /\ \E ls \in LinesUpTo(RoiLines) : given = FromLines(ls) /\ doc = JoinLines(ls)
  /\ out = NoOutput
NextRoi == ScoreRoiClarity
SpecRoi == InitRoi /\ [][NextRoi]_vars

\* a dollar sign directly followed by a digit or a comma
FigureAt(s, i) == Ch(s, i) = "$" /\ i < Len(s) /\ Ch(s, i + 1) \in Digits \cup {","}
TwoFiguresIn(s) == \E i, j \in 1..Len(s) : i < j /\ FigureAt(s, i) /\ FigureAt(s, j)
\* a digit directly followed by a percent sign
PercentAt(s, i) == i < Len(s) /\ Ch(s, i) \in Digits /\ Ch(s, i + 1) = "%"
\* a digit directly followed by x, as in 9.3x
MultipleAt(s, i) == i < Len(s) /\ Ch(s, i) \in Digits /\ Ch(s, i + 1) \in {"x", "X"}
RoiAt(s, j) == j + 2 <= Len(s) /\ lower(SubSeq(s, j, j + 2)) = "roi"
\* a percentage and "roi", in either order, without overlap
RoiPercentageIn(s) ==
  \E i, j \in 1..Len(s) : PercentAt(s, i) /\ RoiAt(s, j) /\ (j >= i + 2 \/ j + 3 <= i)
RoiMultipleIn(s) ==
  \E i, j \in 1..Len(s) : MultipleAt(s, i) /\ RoiAt(s, j) /\ (j >= i + 2 \/ j + 3 <= i)
SomeLine(ls, P(_)) == \E k \in DOMAIN ls : P(ls[k])
Tier(figures, pattern, roi) ==
  IF figures THEN (IF pattern THEN 95 ELSE 75) ELSE IF roi THEN 60 ELSE 30

\* C6 as stated: the two dollar figures may stand anywhere in the text, and
\* a multiple such as 9.3x with ROI counts as the ROI-percentage pattern
C6_AsStated ==
  out.fn = "_score_roi_clarity" =>
    out.val = Tier(TwoFiguresIn(doc),
                   SomeLine(given.lines, RoiPercentageIn)
                     \/ SomeLine(given.lines, RoiMultipleIn),
                   Mentions(doc, "roi"))

\* C6: roi_clarity is 95 if some line of the text has two dollar figures and
\* some line has a percentage (a digit directly followed by %) together with
\* "roi" in any case; 75 if some line has two dollar figures but no line has
\* that percentage pattern; 60 if no line has two dollar figures but the text
\* contains "roi" in any case; 30 otherwise.
C6_RoiTiers ==
  out.fn = "_score_roi_clarity" =>
    out.val = Tier(SomeLine(given.lines, TwoFiguresIn),
                   SomeLine(given.lines, RoiPercentageIn),
                   Mentions(doc, "roi"))

\* Two dollar figures on one line and an ROI percentage on another, scored 95
C6_Witness ==
  /\ out.fn = "_score_roi_clarity"
  /\ given.lines = <<"Invest $350,000, recover $3,250,000", "ROI of 250%">>
  /\ out.val = 95

(***************************************************************************)
(* The calculation check                                                   *)
(***************************************************************************)
CalcLeads == {"", "Fee: ", "Pricing\n"}
CalcSigns == {"", "$"}
CalcOps == {" x ", "*", " * ", "x"}
CalcA == {"100", "1,000", "2.5"}
CalcB == {"5", "2.5", "1,000"}
CalcC == {"500", "600", "5,000", "250", "6.25", "2,500"}
Expressions ==
  [kind : {"expression"}, lead : CalcLeads, signA : CalcSigns, A : CalcA,
   op : CalcOps, signB : CalcSigns, B : CalcB, signC : CalcSigns, C : CalcC]
Written(e) ==
  e.lead \o e.signA \o e.A \o e.op \o e.signB \o e.B \o " = " \o e.signC \o e.C

\* errors = self._detect_errors(doc)
DetectErrors ==
  /\ out.fn = "none"
  /\ out' = [fn |-> "_detect_errors", val |-> _detect_errors(doc)]
  /\ UNCHANGED <<engine, now, frame, doc, given>>

InitCalc ==
  /\ EngineIdle
  /\ \E e \in Expressions : given = e /\ doc = Written(e)
  /\ out = NoOutput
NextCalc == DetectErrors
SpecCalc == InitCalc /\ [][NextCalc]_vars

\* The literals in hundredths
Hundredths ==
  ("100" :> 10000) @@ ("1,000" :> 100000) @@ ("2.5" :> 250) @@ ("5" :> 500)
  @@ ("500" :> 50000) @@ ("600" :> 60000) @@ ("5,000" :> 500000)
  @@ ("250" :> 25000) @@ ("6.25" :> 625) @@ ("2,500" :> 250000)
\* A * B with thousands separators and two decimals
Product ==
  (<<"100", "5">> :> "500.00") @@ (<<"100", "2.5">> :> "250.00")
  @@ (<<"1,000", "5">> :> "5,000.00") @@ (<<"1,000", "2.5">> :> "2,500.00")
  @@ (<<"2.5", "5">> :> "12.50") @@ (<<"2.5", "2.5">> :> "6.25")
  @@ (<<"100", "1,000">> :> "100,000.00") @@ (<<"1,000", "1,000">> :> "1,000,000.00")
  @@ (<<"2.5", "1,000">> :> "2,500.00")
\* A * B and C differ by more than 0.01
Miscalculated(e) ==
  LET d == Hundredths[e.A] * Hundredths[e.B] - Hundredths[e.C] * 100
  IN d > 100 \/ d < -100
LineOf(e) == IF e.lead = "Pricing\n" THEN 2 ELSE 1
\* The one record of a miscalculated expression, none of a right one
RecordsOf(e) ==
  IF Miscalculated(e)
  THEN <<[line |-> LineOf(e),
          expression |-> e.A \o " " \o TimesSign \o " " \o e.B \o " = " \o e.C,
          expected |-> Product[<<e.A, e.B>>],
          error |-> "Should be " \o Product[<<e.A, e.B>>] \o ", not " \o e.C]>>
  ELSE <<>>

\* C5 as stated: each of A, B and C may carry a dollar sign and thousands
\* separators
C5_AsStated ==
  out.fn = "_detect_errors" => out.val.calculation_errors = RecordsOf(given)

\* C5: for a line with an expression A op B = C, op one of x, the times sign
\* and *, where A and C may carry a dollar sign and thousands separators and B
\* is written without either, _detect_errors emits exactly one
\* calculation_errors record (the line number, and A * B with thousands
\* separators and two decimals) when A * B differs from C by more than 0.01,
\* and none when A * B = C; an expression whose B carries a dollar sign or a
\* thousands separator is not recognised and gets no record. 100 x 5 = 600
\* gets one record expecting 500.00, and 100 x 5 = 500 gets none.
C5_CalculationCheck ==
  out.fn = "_detect_errors" =>
    /\ out.val.calculation_errors =
         IF given.signB = "" /\ ~Mentions(given.B, ",") THEN RecordsOf(given) ELSE <<>>
    /\ doc = "100 x 5 = 600" =>
         /\ Len(out.val.calculation_errors) = 1
         /\ out.val.calculation_errors[1].expected = "500.00"
    /\ doc = "100 x 5 = 500" => out.val.calculation_errors = <<>>

\* A miscalculated expression with dollar signs and separators on A and C,
\* checked
C5_Witness ==
  /\ out.fn = "_detect_errors"
  /\ doc = "Pricing\n$1,000 x 5 = $2,500"
  /\ Len(out.val.calculation_errors) = 1
  /\ out.val.calculation_errors[1].expected = "5,000.00"
  /\ out.val.calculation_errors[1].line = 2

(***************************************************************************)
(* One more misspelling: a document is reviewed, a known misspelling is    *)
(* inserted as a word of its own, and the document is reviewed again       *)
(***************************************************************************)
RECURSIVE Repeat(_, _)
Repeat(s, n) == IF n = 0 THEN "" ELSE s \o Repeat(s, n - 1)
\* a line of 493 characters with one misspelling
LongLine == Repeat("lorem ipsum ", 40) \o "we acheive it"
EditLines ==
  {"We acheive results", "your going now", "ROI on $5 spend", LongLine}
Misspellings == {"acheive", "propsal"}
Places == [at : {"new line"}, k : 1..(MaxLines + 1)]
          \cup [at : {"start", "end", "inside"}, k : 1..MaxLines]

\* the position of the first space of the line, 0 if it has none
FirstSpace(line) ==
  IF \E i \in 1..Len(line) : Ch(line, i) = " "
  THEN CHOOSE i \in 1..Len(line) :
         Ch(line, i) = " " /\ \A j \in 1..(i - 1) : Ch(line, j) # " "
  ELSE 0
InsertOnLine(line, p, at) ==
  IF at = "start" THEN p \o " " \o line
  ELSE IF at = "end" THEN line \o " " \o p
  ELSE SubSeq(line, 1, FirstSpace(line)) \o p \o " "
       \o SubSeq(line, FirstSpace(line) + 1, Len(line))
Inserted(ls, p, place) ==
  IF place.at = "new line"
  THEN SubSeq(ls, 1, place.k - 1) \o <<p>> \o SubSeq(ls, place.k, Len(ls))
  ELSE [ls EXCEPT ![place.k] = InsertOnLine(@, p, place.at)]

\* The document is edited between two reviews
InsertMisspelling(p, place) ==
  /\ out.fn = "quality_assurance_review"
  /\ given.kind = "lines"
  /\ IF place.at = "new line" THEN place.k <= Len(given.lines) + 1
     ELSE place.k <= Len(given.lines)
          /\ (place.at = "inside" => FirstSpace(given.lines[place.k]) > 0)
  /\ given' = [kind |-> "edit", lines |-> given.lines, review |-> out.val,
               p |-> p, place |-> place]
  /\ doc' = JoinLines(Inserted(given.lines, p, place))
  /\ out' = NoOutput
  /\ UNCHANGED <<engine, now, frame>>

InitEdit ==
  /\ EngineIdle
  /\ \E ls \in LinesUpTo(EditLines) : given = FromLines(ls) /\ doc = JoinLines(ls)
  /\ out = NoOutput
NextEdit ==
  \/ ReviewDocument
  \/ \E p \in Misspellings, place \in Places : InsertMisspelling(p, place)
SpecEdit == InitEdit /\ [][NextEdit]_vars

\* the line has p as a word of its own, in any case
HasWord(line, p) ==
  \E i \in 1..(Len(line) - Len(p) + 1) :
    /\ lower(SubSeq(line, i, i + Len(p) - 1)) = p
    /\ (i = 1 \/ Ch(line, i - 1) \notin WordChars)
    /\ (i + Len(p) > Len(line) \/ Ch(line, i + Len(p)) \notin WordChars)
Reviewed == given.kind = "edit" /\ out.fn = "quality_assurance_review"
SpellingBefore == Len(given.review.errors_found.spelling_errors)
SpellingAfter == Len(out.val.errors_found.spelling_errors)
OnLineWithIt ==
  given.place.at # "new line" /\ HasWord(given.lines[given.place.k], given.p)
ScoreBefore == given.review.overall_score
ScoreAfter == out.val.overall_score
MaxBrief == 500
GrewDetailed ==
  Len(JoinLines(given.lines)) <= MaxBrief /\ Len(doc) > MaxBrief

\* C4 as stated: wherever the misspelling is inserted, spelling_errors gets
\* exactly one more record and the overall score falls, unless it was 0
C4_AsStated ==
  Reviewed =>
    /\ SpellingAfter = SpellingBefore + 1
    /\ IF ScoreBefore = 0 THEN ScoreAfter = 0 ELSE ScoreAfter < ScoreBefore

\* C4: inserting one more instance of a known misspelling p as a word of its
\* own gives spelling_errors exactly one more record when it goes on a new
\* line or on a line that does not have p yet, and the same number of records
\* when it goes on a line that already has p. Inserted on a new line it never
\* raises overall_score, and lowers it by exactly 5 when the score was above 0
\* and below 100 and the insertion does not take the text past 500
\* characters.
C4_OneMoreMisspelling ==
  Reviewed =>
    /\ SpellingAfter = IF OnLineWithIt THEN SpellingBefore ELSE SpellingBefore + 1
    /\ given.place.at = "new line" =>
         /\ ScoreAfter <= ScoreBefore
         /\ (0 < ScoreBefore /\ ScoreBefore < 100 /\ ~GrewDetailed) =>
              ScoreAfter = ScoreBefore - 5

\* The misspelling inserted on a new line of a text that has it already, and
\* reviewed again: one more record, five points fewer
C4_Witness ==
  /\ Reviewed
  /\ given.place.at = "new line"
  /\ given.p = "acheive"
  /\ given.lines = <<"We acheive results">>
  /\ SpellingAfter = 2
  /\ ScoreBefore = 95
  /\ ScoreAfter = 90

(***************************************************************************)
(* The aggregate quality score: the defects of a document are detected and *)
(* the score is computed from the document and the inventory               *)
(***************************************************************************)
ElevenDefects ==
  "acheive beleive aproach experiance accurate recieve propsal 1 x 1 = 2, 1 x 1 = 3, 1 x 1 = 4, 1 x 1 = 5"
QualityLines ==
  {ElevenDefects,
   "ROI due: $" \o ElevenDefects,
   Repeat("lorem ipsum ", 34) \o ElevenDefects,
   "your going. they're office. you're organization. over 10+ years. approximatley dependng",
   "Return of $5", "$5 only", "investment plan", "Our figures are accurate",
   LongLine}

\* quality_score = self._calculate_quality_score(doc, errors)
CalculateQualityScore ==
  /\ out.fn = "_detect_errors"
  /\ out' = [fn |-> "_calculate_quality_score", errors |-> out.val,
             val |-> _calculate_quality_score(doc, out.val)]
  /\ UNCHANGED <<engine, now, frame, doc, given>>

InitQuality ==
  /\ EngineIdle
  /\ \E ls \in LinesUpTo(QualityLines) : given = FromLines(ls) /\ doc = JoinLines(ls)
  /\ out = NoOutput
NextQuality == DetectErrors \/ CalculateQualityScore
SpecQuality == InitQuality /\ [][NextQuality]_vars

\* N: the defect records of all five kinds
DefectRecords(errors) ==
  Len(errors.spelling_errors) + Len(errors.grammar_errors)
  + Len(errors.consistency_errors) + Len(errors.calculation_errors)
  + Len(errors.logic_errors)
LengthBonus(text) == IF Len(text) > MaxBrief THEN 5 ELSE 0
FinancialBonus(text) ==
  IF Mentions(text, "$") /\ MentionsAny(text, {"roi", "investment", "return"})
  THEN 10 ELSE 0
Clamped(x) == IF x < 0 THEN 0 ELSE IF x > 100 THEN 100 ELSE x

\* C11: the aggregate quality score is 100 - 5 N + b1 + b2 clamped to
\* [0, 100], N the number of defect records of all kinds together, b1 = 5 for
\* a document of more than 500 characters, b2 = 10 for a document with a
\* dollar sign and, in any case, one of roi, investment, return; the clamp
\* is applied once, after both bonuses.
C11_AggregateScore ==
  out.fn = "_calculate_quality_score" =>
    out.val = Clamped(100 - 5 * DefectRecords(out.errors)
                      + LengthBonus(doc) + FinancialBonus(doc))

\* Twenty-two defects of two kinds and both bonuses: 100 - 110 + 15, a score
\* the clamp leaves at 5
C11_Witness ==
  /\ out.fn = "_calculate_quality_score"
  /\ DefectRecords(out.errors) = 22
  /\ Len(out.errors.calculation_errors) = 8
  /\ LengthBonus(doc) = 5
  /\ FinancialBonus(doc) = 10
  /\ out.val = 5

(***************************************************************************)
(* The scan of _detect_errors line by line: the inventory grows by the     *)
(* records of one line at each turn of the loop                            *)
(***************************************************************************)
ScanTexts ==
  {"We acheive and beleive", "propsal to acheive, ACHEIVE more",
   "figures are accurate", "your going to they're office",
   "dependng on your  going, acheive", "clean line", ""}

\* errors = {...}; lines = content.split('\n')
BeginScan ==
  /\ out.fn = "none"
  /\ out' = [fn |-> "scan", lines |-> split(doc, "\n"), line_num |-> 1,
             errors |-> NoErrors]
  /\ UNCHANGED <<engine, now, frame, doc, given>>

\* One turn of `for line_num, line in enumerate(lines, 1)`
ScanNextLine ==
  /\ out.fn = "scan"
  /\ out.line_num <= Len(out.lines)
  /\ LET line == out.lines[out.line_num]
         line_num == out.line_num
     IN out' = [out EXCEPT
          !.line_num = @ + 1,
          !.errors.spelling_errors = @ \o SpellingOfLine(line, line_num, 1),
          !.errors.grammar_errors = @ \o GrammarOfLine(line, line_num, 1),
          !.errors.calculation_errors =
             @ \o CalcOfLine(line, line_num, findall(calc_pattern, line), 1)]
  /\ UNCHANGED <<engine, now, frame, doc, given>>

\* return errors
ReturnErrors ==
  /\ out.fn = "scan"
  /\ out.line_num > Len(out.lines)
  /\ out' = [fn |-> "_detect_errors", val |-> out.errors]
  /\ UNCHANGED <<engine, now, frame, doc, given>>

InitScan ==
  /\ EngineIdle
  /\ \E ls \in LinesUpTo(ScanTexts) : given = FromLines(ls) /\ doc = JoinLines(ls)
  /\ out = NoOutput
NextScan == BeginScan \/ ScanNextLine \/ ReturnErrors
SpecScan == InitScan /\ [][NextScan]_vars

\* The lines of the document; the empty document has one empty line
LinesGiven == IF given.lines = <<>> THEN <<"">> ELSE given.lines
\* The misspellings and the grammar corrections in the order of their tables
SpellingWords ==
  <<"acheive", "beleive", "aproach", "experiance", "accurate", "recieve", "propsal">>
GrammarCorrections ==
  <<"you're going", "their office", "your organization",
    "redundant 'over' and '+'", "approximately", "depending">>
SpellingMatches(r, line) == HasWord(line, SpellingWords[r])
GrammarMatches(r, line) == search(grammar_patterns[r].re, line, TRUE)
IndexIn(x, seq) == CHOOSE k \in DOMAIN seq : seq[k] = x

\* records has one record for each pair of a line up to line scanned and a
\* rule that matches it, and no other record
OnePerMatch(records, key(_), keys, Matches(_, _), scanned) ==
  /\ \A i \in DOMAIN records :
       records[i].line \in 1..scanned /\ InSeq(key(records[i]), keys)
  /\ \A L \in 1..scanned, r \in DOMAIN keys :
       Cardinality({i \in DOMAIN records :
                      records[i].line = L /\ key(records[i]) = keys[r]})
         = IF Matches(r, LinesGiven[L]) THEN 1 ELSE 0
\* records is sorted by line and, within a line, by the position of the rule
SortedByLineAndRule(records, key(_), keys) ==
  \A i, j \in DOMAIN records :
    i < j => \/ records[i].line < records[j].line
             \/ /\ records[i].line = records[j].line
                /\ IndexIn(key(records[i]), keys) < IndexIn(key(records[j]), keys)
TextOf(record) == record.text
SuggestionOf(record) == record.suggestion
InOrder(errors, scanned) ==
  /\ OnePerMatch(errors.spelling_errors, TextOf, SpellingWords, SpellingMatches, scanned)
  /\ SortedByLineAndRule(errors.spelling_errors, TextOf, SpellingWords)
  /\ OnePerMatch(errors.grammar_errors, SuggestionOf, GrammarCorrections,
                 GrammarMatches, scanned)
  /\ SortedByLineAndRule(errors.grammar_errors, SuggestionOf, GrammarCorrections)
IsPrefix(a, b) == Len(a) <= Len(b) /\ SubSeq(b, 1, Len(a)) = a
\* The inventory in a state where there is one
Inventory(o) == IF o.fn = "scan" THEN o.errors ELSE o.val
Kept ==
  (out.fn = "scan" /\ out'.fn \in {"scan", "_detect_errors"}) =>
    /\ IsPrefix(Inventory(out).spelling_errors, Inventory(out').spelling_errors)
    /\ IsPrefix(Inventory(out).grammar_errors, Inventory(out').grammar_errors)
ScannedInOrder ==
  /\ out.fn = "scan" => InOrder(out.errors, out.line_num - 1)
  /\ out.fn = "_detect_errors" =>
       InOrder(out.val, Len(LinesGiven)) /\ out.val = _detect_errors(doc)

\* C12: spelling_errors, and likewise grammar_errors, has exactly one record
\* for each pair of a line and a rule whose pattern matches the line in any
\* case, sorted by line number and, within a line, by the position of the
\* rule in its table; the records already appended keep their places.
C12_OrderedRecords == [](ScannedInOrder) /\ [][Kept]_vars

\* Two lines, the first with two misspellings in the reverse of the table's
\* order and one of them twice, scanned to the end
C12_Witness ==
  /\ out.fn = "_detect_errors"
  /\ given.lines = <<"propsal to acheive, ACHEIVE more", "We acheive and beleive">>
  /\ [i \in 1..4 |-> out.val.spelling_errors[i].text]
       = <<"acheive", "propsal", "acheive", "beleive">>
  /\ Len(out.val.spelling_errors) = 4

\* C13: every spelling_errors record reports a genuine misspelling: its
\* suggestion differs from the text it flags, so a line of correctly spelled
\* words such as "accurate" gets no spelling_errors record and no penalty.
C13_GenuineMisspellings ==
  /\ out.fn = "_detect_errors" =>
       \A i \in DOMAIN out.val.spelling_errors :
         out.val.spelling_errors[i].suggestion # out.val.spelling_errors[i].text
  /\ (out.fn = "_calculate_quality_score"
      /\ given.lines = <<"Our figures are accurate">>) =>
       out.errors.spelling_errors = <<>> /\ out.val = 100

====
